---- MODULE Spec2Model ----
(***************************************************************************)
(* Tool-invocation security scanner of goose (crates/goose/src/security):  *)
(* the scan combinator (scanner.rs: PromptInjectionScanner) and the        *)
(* session orchestrator (mod.rs: SecurityManager).                         *)
(*                                                                         *)
(* Confidences are f32 values with two decimals, written in hundredths     *)
(* (0.95 is 95). A string is a sequence of words; a word that triggers a   *)
(* signature of the catalogue stands for a piece of text the signature's   *)
(* detection rule matches.                                                 *)
(***************************************************************************)
EXTENDS Integers, Sequences, FiniteSets, TLC

\* Longest text, in words, the scanner specification evaluates.
MaxLen == 4
\* Most tool requests in the batches of the calls in progress, over all
\* callers.
MaxBatch == 2
\* Longest approved list and longest needs-approval list of a permission
\* check result handed to filter_malicious_tool_calls.
MaxFilter == 1

(***************************************************************************)
(* patterns.rs (RiskLevel, PatternMatcher): not part of the sources at     *)
(* hand, modelled from the design document (sections 3, 4.1, 4.2).         *)
(***************************************************************************)
RiskLevel == {"Low", "Medium", "High", "Critical"}

RiskRank(r) ==
  CASE r = "Low" -> 1 [] r = "Medium" -> 2 [] r = "High" -> 3 [] r = "Critical" -> 4

\* RiskLevel::confidence_score: tier -> confidence (hundredths).
confidence_score(r) ==
  CASE r = "Low" -> 30 [] r = "Medium" -> 60 [] r = "High" -> 85 [] r = "Critical" -> 95

\* The static catalogue of threat signatures, keyed by the word that
\* triggers the signature's detection rule.
ThreatPatterns ==
  [w \in {"rm_rf_root", "bash_process_substitution", "base64_decode", "env_access"} |->
     CASE w = "rm_rf_root" ->
            [name |-> w, description |-> "Recursive file deletion",
             risk_level |-> "Critical", destructive |-> TRUE]
       [] w = "bash_process_substitution" ->
            [name |-> w, description |-> "Bash process substitution",
             risk_level |-> "High", destructive |-> FALSE]
       [] w = "base64_decode" ->
            [name |-> w, description |-> "Base64 decoding",
             risk_level |-> "Medium", destructive |-> FALSE]
       [] w = "env_access" ->
            [name |-> w, description |-> "Environment variable access",
             risk_level |-> "Low", destructive |-> FALSE]]

SignatureWords == DOMAIN ThreatPatterns

\* The words of the texts the scanner specification evaluates: the
\* signature words and one word no signature matches.
Words == SignatureWords \cup {"ls"}

RECURSIVE scan_positions(_, _)
\* PatternMatcher::scan_text, one match per word that triggers a signature,
\* here in the order of their position in the text.
scan_positions(text, i) ==
  IF i > Len(text) THEN << >>
  ELSE (IF text[i] \in SignatureWords
          THEN << [threat |-> ThreatPatterns[text[i]], matched_text |-> text[i],
                   start_pos |-> i] >>
          ELSE << >>) \o scan_positions(text, i + 1)

scan_text(text) == scan_positions(text, 1)

\* The order in which scan_text returns its matches is not fixed by the
\* design document: any arrangement of the matches is a possible result.
MatchOrders(text) ==
  LET m == scan_text(text)
  IN  { [i \in 1..Len(m) |-> m[p[i]]] : p \in Permutations(1..Len(m)) }

RECURSIVE max_rank(_, _)
max_rank(matches, i) ==
  IF i > Len(matches) THEN 0
  ELSE LET rest == max_rank(matches, i + 1)
           here == RiskRank(matches[i].threat.risk_level)
       IN  IF here > rest THEN here ELSE rest

\* PatternMatcher::get_max_risk_level: Option<RiskLevel>, None on no match.
get_max_risk_level(matches) ==
  IF Len(matches) = 0 THEN [some |-> FALSE, level |-> "Low"]
  ELSE [some |-> TRUE,
        level |-> CHOOSE r \in RiskLevel : RiskRank(r) = max_rank(matches, 1)]

(***************************************************************************)
(* The classifier (MlDetector::scan) as the scanner sees it: Result<f32>.  *)
(***************************************************************************)
\* Err(_), Ok(NaN) (the softmax of two scores whose exponentials overflow)
\* or Ok(v) with v in [0,1].
MlErr == [kind |-> "Err", v |-> 0]
MlNaN == [kind |-> "NaN", v |-> 0]
MlOk(v) == [kind |-> "Val", v |-> v]
MlValues == {0, 50, 70, 90, 100}
MlOutcomes == {MlErr, MlNaN} \cup { MlOk(v) : v \in MlValues }
\* No classifier call was made.
NoCall == [kind |-> "NoCall", v |-> 0]

\* Option<f32>
None == [some |-> FALSE, nan |-> FALSE, v |-> 0]
Some(x) == [some |-> TRUE, nan |-> x.kind = "NaN", v |-> x.v]

\* f32::max: the larger operand, a NaN operand is ignored.
F32Max(a, b) == IF b.nan THEN a ELSE IF a >= b.v THEN a ELSE b.v

(***************************************************************************)
(* scanner.rs: PromptInjectionScanner                                      *)
(***************************************************************************)
\* PromptInjectionScanner::new / with_ml_detection (the Ok case): the
\* scanner, with its construction number as the instance's identity.
NewScanner(ml, inst) == [ml_detector |-> ml, inst |-> inst]

\* Variant: no early return on an empty match list.
scan_with_patterns_unchecked(matches) ==
  LET max_risk == get_max_risk_level(matches)
  IN  confidence_score(IF max_risk.some THEN max_risk.level ELSE "Low")

\* scan_with_patterns, on the matches scan_text returned.
scan_with_patterns(matches) ==
  IF Len(matches) = 0 THEN 0
  ELSE LET max_risk == get_max_risk_level(matches)
       IN  confidence_score(IF max_risk.some THEN max_risk.level ELSE "Low")

\* matches.iter().take(3): the entries of the pattern details.
Take(s, n) == IF Len(s) <= n THEN s ELSE SubSeq(s, 1, n)

NoThreats ==
  [none |-> TRUE, pattern_part |-> FALSE, pattern_confidence |-> 0,
   pattern_details |-> << >>, more |-> 0, ml_part |-> None]

\* Variant: the explanation names the top match only.
Explanation_top_match(matches, confidence, pattern_confidence, ml_confidence) ==
  IF confidence = 0 THEN NoThreats
  ELSE [none |-> FALSE,
        pattern_part |-> pattern_confidence > 0,
        pattern_confidence |-> IF pattern_confidence > 0 THEN pattern_confidence ELSE 0,
        pattern_details |->
          IF pattern_confidence > 0
            THEN [i \in 1..Len(Take(matches, 1)) |->
                    [description |-> matches[i].threat.description,
                     risk |-> matches[i].threat.risk_level,
                     found |-> matches[i].matched_text]]
            ELSE << >>,
        more |-> IF pattern_confidence > 0 /\ Len(matches) > 1
                   THEN Len(matches) - 1 ELSE 0,
        ml_part |-> ml_confidence]

\* Variant: the fixed message is chosen on the pattern confidence.
Explanation_on_pattern(matches, confidence, pattern_confidence, ml_confidence) ==
  IF pattern_confidence = 0 THEN NoThreats
  ELSE [none |-> FALSE,
        pattern_part |-> TRUE,
        pattern_confidence |-> pattern_confidence,
        pattern_details |->
          [i \in 1..Len(Take(matches, 3)) |->
             [description |-> matches[i].threat.description,
              risk |-> matches[i].threat.risk_level,
              found |-> matches[i].matched_text]],
        more |-> IF Len(matches) > 3 THEN Len(matches) - 3 ELSE 0,
        ml_part |-> ml_confidence]

\* The explanation of combine_results, by its parts.
Explanation(matches, confidence, pattern_confidence, ml_confidence) ==
  IF confidence = 0 THEN NoThreats
  ELSE [none |-> FALSE,
        pattern_part |-> pattern_confidence > 0,
        pattern_confidence |-> IF pattern_confidence > 0 THEN pattern_confidence ELSE 0,
        pattern_details |->
          IF pattern_confidence > 0
            THEN [i \in 1..Len(Take(matches, 3)) |->
                    [description |-> matches[i].threat.description,
                     risk |-> matches[i].threat.risk_level,
                     found |-> matches[i].matched_text]]
            ELSE << >>,
        more |-> IF pattern_confidence > 0 /\ Len(matches) > 3
                   THEN Len(matches) - 3 ELSE 0,
        ml_part |-> ml_confidence]

\* The fixed cutoff of combine_results.
MaliciousCutoff == 50

\* Variant: the cutoff itself is not malicious (`>` for `>=`).
combine_results_strict(matches, pattern_confidence, ml_confidence) ==
  LET confidence == IF ml_confidence.some
                      THEN F32Max(pattern_confidence, ml_confidence)
                      ELSE pattern_confidence
  IN  [ok |-> TRUE,
       is_malicious |-> confidence > MaliciousCutoff,
       confidence |-> confidence,
       explanation |-> Explanation(matches, confidence, pattern_confidence,
                                   ml_confidence)]

\* Variant: the two signals are averaged.
combine_results_average(matches, pattern_confidence, ml_confidence) ==
  LET confidence == IF ml_confidence.some /\ ~ml_confidence.nan
                      THEN (pattern_confidence + ml_confidence.v) \div 2
                      ELSE pattern_confidence
  IN  [ok |-> TRUE,
       is_malicious |-> confidence >= MaliciousCutoff,
       confidence |-> confidence,
       explanation |-> Explanation(matches, confidence, pattern_confidence,
                                   ml_confidence)]

\* combine_results: the fused confidence, the flag and the explanation.
combine_results(matches, pattern_confidence, ml_confidence) ==
  LET confidence == IF ml_confidence.some
                      THEN F32Max(pattern_confidence, ml_confidence)
                      ELSE pattern_confidence
  IN  [ok |-> TRUE,
       is_malicious |-> confidence >= MaliciousCutoff,
       confidence |-> confidence,
       explanation |-> Explanation(matches, confidence, pattern_confidence,
                                   ml_confidence)]

\* Variant: the classifier's error is propagated (`.await?`).
scan_for_dangerous_patterns_propagate(matches, scanner, outcome) ==
  LET pattern_confidence == scan_with_patterns(matches)
      r == combine_results(matches, pattern_confidence,
             IF scanner.ml_detector /\ outcome.kind # "Err" THEN Some(outcome) ELSE None)
  IN  IF scanner.ml_detector /\ outcome.kind = "Err" THEN [r EXCEPT !.ok = FALSE] ELSE r

\* scan_for_dangerous_patterns: matches is what scan_text returns for the
\* text, outcome what ml_detector.scan returns if there is a detector.
scan_for_dangerous_patterns(matches, scanner, outcome) ==
  LET pattern_confidence == scan_with_patterns(matches)
      ml_confidence == IF scanner.ml_detector
                         THEN (IF outcome.kind = "Err" THEN None ELSE Some(outcome))
                         ELSE None
  IN  combine_results(matches, pattern_confidence, ml_confidence)

\* The default of get_threshold_from_config.
DefaultThreshold == 70

\* get_threshold_from_config: the configured value (threshold as f32), the
\* default when the parameter is not set.
get_threshold_from_config(cfg) ==
  IF cfg.security_prompt_threshold.some
    THEN cfg.security_prompt_threshold.v
    ELSE DefaultThreshold

(***************************************************************************)
(* serde_json::Value and the tool call (rmcp CallToolRequestParam), as     *)
(* extract_tool_content reads them.                                        *)
(***************************************************************************)
\* A value is [t, s, kids]: s the string (or the printed number / bool),
\* kids the (key, value) pairs of an object or the items of an array
\* (with key "").
Null == [t |-> "Null", s |-> << >>, kids |-> << >>]
Str(s) == [t |-> "String", s |-> s, kids |-> << >>]
Number(n) == [t |-> "Number", s |-> <<n>>, kids |-> << >>]
Bool(b) == [t |-> "Bool", s |-> <<b>>, kids |-> << >>]
Array(items) ==
  [t |-> "Array", s |-> << >>, kids |-> [i \in 1..Len(items) |-> <<"", items[i]>>]]
Object(pairs) == [t |-> "Object", s |-> << >>, kids |-> pairs]

\* The recursion bound of extract_text_from_value.
MaxDepth == 10

\* The keys extract_text_from_value labels.
CommandKeys == {"command", "script", "code", "shell", "bash", "cmd"}

\* s.trim().is_empty()
TrimIsEmpty(s) == \A i \in 1..Len(s) : s[i] \in {" ", "\n", "\t"}

RECURSIVE extract_text_from_value(_, _)
RECURSIVE extract_text_from_kids(_, _, _, _)
\* extract_text_from_value: the strings pushed to content, in order.
extract_text_from_value(value, depth) ==
  IF depth > MaxDepth THEN << >>
  ELSE CASE value.t = "String" ->
              IF ~TrimIsEmpty(value.s) THEN << value.s >> ELSE << >>
         [] value.t = "Array" -> extract_text_from_kids(value.kids, 1, FALSE, depth)
         [] value.t = "Object" -> extract_text_from_kids(value.kids, 1, TRUE, depth)
         [] value.t = "Number" -> << value.s >>
         [] value.t = "Bool" -> << value.s >>
         [] value.t = "Null" -> << >>

\* The loops over the items of an array and the entries of an object.
extract_text_from_kids(kids, i, labelled, depth) ==
  IF i > Len(kids) THEN << >>
  ELSE (IF labelled /\ kids[i][1] \in CommandKeys
          THEN << <<kids[i][1], ": ">> >> ELSE << >>)
       \o extract_text_from_value(kids[i][2], depth + 1)
       \o extract_text_from_kids(kids, i + 1, labelled, depth)

RECURSIVE Join(_, _)
\* content.join("\n")
Join(content, i) ==
  IF i > Len(content) THEN << >>
  ELSE content[i] \o (IF i < Len(content) THEN <<"\n">> ELSE << >>)
       \o Join(content, i + 1)

\* Variant: the arguments are at depth 1.
extract_tool_content_from_one(tool_call) ==
  Join(<< <<"Tool: ", tool_call.name>> >>
       \o extract_text_from_value(tool_call.arguments, 1), 1)

\* extract_tool_content: the tool name, then the text of the arguments.
extract_tool_content(tool_call) ==
  Join(<< <<"Tool: ", tool_call.name>> >>
       \o extract_text_from_value(tool_call.arguments, 0), 1)

\* tool_request.tool_call: Ok(CallToolRequestParam) or Err(_).
OkCall(name, arguments) == [ok |-> TRUE, name |-> name, arguments |-> arguments]
ErrCall == [ok |-> FALSE, name |-> "", arguments |-> Null]

\* The tool requests the callers build their batches from: a recursive
\* delete, a nested script that reads the environment (Low tier) and
\* carries a number, and a request whose payload failed to parse.
ToolRequestPool ==
  { [id |-> "req_rm",
     tool_call |-> OkCall("shell", Object(<< <<"command", Str(<<"rm_rf_root">>)>> >>))],
    [id |-> "req_env",
     tool_call |-> OkCall("run", Object(<< <<"config",
                      Object(<< <<"script", Str(<<"ls", " ", "env_access">>)>>,
                                <<"retries", Number("3")>> >>)>> >>))],
    [id |-> "req_bad", tool_call |-> ErrCall] }

RECURSIVE SeqsUpTo(_, _)
\* The sequences over S of length at most n.
SeqsUpTo(S, n) ==
  IF n = 0 THEN { << >> }
  ELSE LET shorter == SeqsUpTo(S, n - 1)
       IN  shorter \cup { Append(q, x) : q \in shorter, x \in S }

\* The batches a caller hands over.
Batches == SeqsUpTo(ToolRequestPool, MaxBatch)
FilterLists == SeqsUpTo(ToolRequestPool, MaxFilter)
Texts == SeqsUpTo(Words, MaxLen)

(***************************************************************************)
(* State                                                                   *)
(***************************************************************************)
VARIABLES
  config,        \* Config::global(): the parameters the security code reads
  cell,          \* SecurityManager.scanner: OnceLock<PromptInjectionScanner>
  constructions, \* how many times the closure of get_or_init has run
  caller,        \* per caller: the position in analyze_tool_requests, its locals
  scan,          \* the scanner specification: one evaluation, input and verdict
  infer,         \* the classifier specification: one MlDetector::scan, answer and outcome
  lookup,        \* the registry specification: one ModelConfig::from_config
  extraction     \* the extraction specification: one extract_tool_content

vars == <<config, cell, constructions, caller, scan, infer, lookup, extraction>>

\* The tasks that call into the one SecurityManager.
Callers == {"a", "b"}

\* security_prompt_threshold values a configuration holds (None: not set).
Thresholds == {None, [some |-> TRUE, nan |-> FALSE, v |-> 20]}

\* What the backend answers a classifier call of an analyze call.
BackendOutcomes == {MlErr, MlOk(70)}

\* OnceLock::new()
EmptyCell ==
  [state |-> "incomplete", value |-> NewScanner(FALSE, 0),
   ml_requested |-> FALSE, ml_init_failed |-> FALSE]

\* A caller outside analyze_tool_requests.
Idle ==
  [pc |-> "idle", entry |-> "", enabled |-> FALSE, approved |-> << >>, needs_approval |-> << >>,
   tool_requests |-> << >>, i |-> 1, results |-> << >>,
   scanner |-> NewScanner(FALSE, 0), trace |-> << >>, classifier_calls |-> 0,
   ret |-> [ok |-> TRUE, value |-> << >>]]

NoScan == [done |-> FALSE, text |-> << >>, matches |-> << >>, ml_detector |-> FALSE,
           outcome |-> NoCall, result |-> combine_results(<< >>, 0, None)]

\* No MlDetector::scan, no ModelConfig::from_config and no
\* extract_tool_content has been evaluated.
NoInfer ==
  [done |-> FALSE,
   answer |-> [status |-> "send_failed", parses |-> FALSE, response_items |-> << >>],
   outcome |-> NoCall]
NoLookup ==
  [done |-> FALSE, security_ml_model |-> [some |-> FALSE, name |-> << >>],
   result |-> [ok |-> FALSE, model |-> << >>, version |-> "", input_name |-> "",
               unknown |-> << >>, available |-> {}]]
NoExtraction ==
  [done |-> FALSE, levels |-> 0, leaf |-> Null, tool_call |-> OkCall("run", Null),
   content |-> << >>]

\* SecurityManager::new() in a process whose configuration is any.
Init ==
  /\ config \in [security_prompt_enabled : BOOLEAN,
                 security_prompt_ml_enabled : BOOLEAN,
                 security_prompt_threshold : Thresholds]
  /\ cell = EmptyCell
  /\ constructions = 0
  /\ caller = [c \in Callers |-> Idle]
  /\ scan = NoScan
  /\ infer = NoInfer
  /\ lookup = NoLookup
  /\ extraction = NoExtraction

(***************************************************************************)
(* mod.rs: SecurityManager                                                 *)
(***************************************************************************)
\* Variant: the flag is not consulted.
is_prompt_injection_detection_enabled_always == TRUE

is_prompt_injection_detection_enabled == config.security_prompt_enabled

is_ml_scanning_enabled == config.security_prompt_ml_enabled

RECURSIVE InProgress(_)
\* The tool requests in the batches of the calls of callers S.
InProgress(S) ==
  IF S = {} THEN 0
  ELSE LET c == CHOOSE x \in S : TRUE
       IN  Len(caller[c].tool_requests) + InProgress(S \ {c})

\* analyze_tool_requests up to the get_or_init: the enabled flag is read,
\* and a disabled scan returns Ok(vec![]) at once.
Enter(c, entry, approved, needs_approval, tool_requests) ==
  /\ caller[c].pc = "idle"
  /\ Len(tool_requests) + InProgress(Callers \ {c}) <= MaxBatch
  /\ caller' = [caller EXCEPT ![c] =
       [Idle EXCEPT !.pc = IF is_prompt_injection_detection_enabled
                             THEN "get_or_init" ELSE "returned",
                    !.entry = entry, !.approved = approved,
                    !.enabled = is_prompt_injection_detection_enabled,
                    !.needs_approval = needs_approval,
                    !.tool_requests = tool_requests]]
  /\ UNCHANGED <<config, cell, constructions, scan, infer, lookup, extraction>>

AnalyzeToolRequests(c) ==
  \E tool_requests \in Batches :
    Enter(c, "analyze_tool_requests", << >>, << >>, tool_requests)

\* filter_malicious_tool_calls: approved.chain(needs_approval), then analyze.
FilterMaliciousToolCalls(c) ==
  \E approved \in FilterLists, needs_approval \in FilterLists :
    /\ Enter(c, "filter_malicious_tool_calls", approved, needs_approval,
             approved \o needs_approval)

\* Variant: an unsynchronised check, every caller that finds no value yet
\* runs the closure.
MayInitialize_unsynchronised(state) == state # "complete"

\* OnceLock::get_or_init: a caller may run the closure only if it finds the
\* cell incomplete (and marks it running in the same atomic step).
MayInitialize(state) == state = "incomplete"

\* Variant: a stored scanner that does not fit the classifier flag, or whose
\* classifier failed to initialise, is dropped and built again.
GetOrInitReady_recheck(c) ==
  /\ caller[c].pc = "get_or_init"
  /\ cell.state = "complete"
  /\ IF cell.ml_requested # is_ml_scanning_enabled \/ cell.ml_init_failed
       THEN /\ cell' = [cell EXCEPT !.state = "incomplete"]
            /\ UNCHANGED caller
       ELSE /\ caller' = [caller EXCEPT ![c].pc = "loop", ![c].scanner = cell.value]
            /\ UNCHANGED cell
  /\ UNCHANGED <<config, constructions, scan, infer, lookup, extraction>>

\* get_or_init on a complete cell: the stored scanner.
GetOrInitReady(c) ==
  /\ caller[c].pc = "get_or_init"
  /\ cell.state = "complete"
  /\ caller' = [caller EXCEPT ![c].pc = "loop", ![c].scanner = cell.value]
  /\ UNCHANGED <<config, cell, constructions, scan, infer, lookup, extraction>>

\* get_or_init on an incomplete cell: this caller is the one to run the
\* closure; callers that find the cell running wait for it to complete.
GetOrInitBegin(c) ==
  /\ caller[c].pc = "get_or_init"
  /\ cell.state # "complete"
  /\ MayInitialize(cell.state)
  /\ cell' = [cell EXCEPT !.state = "running"]
  /\ caller' = [caller EXCEPT ![c].pc = "closure"]
  /\ UNCHANGED <<config, constructions, scan, infer, lookup, extraction>>

\* PromptInjectionScanner::with_ml_detection(): Err(_) if the detector
\* does not initialise (init_ok is false).
with_ml_detection(init_ok, inst) == [ok |-> init_ok, scanner |-> NewScanner(TRUE, inst)]

\* Variant: the result of with_ml_detection() is used whether Ok or not.
BuildScanner_ignore_failure(ml_enabled, init_ok, inst) ==
  IF ml_enabled THEN with_ml_detection(init_ok, inst).scanner
  ELSE NewScanner(FALSE, inst)

\* The scanner the closure builds: that of with_ml_detection() if the
\* classifier flag is set and it returns Ok, new() otherwise.
BuildScanner(ml_enabled, init_ok, inst) ==
  IF ml_enabled
    THEN (IF with_ml_detection(init_ok, inst).ok
            THEN with_ml_detection(init_ok, inst).scanner
            ELSE NewScanner(FALSE, inst))
    ELSE NewScanner(FALSE, inst)

\* The closure of get_or_init, and the store of its result.
InitClosure(c) ==
  /\ caller[c].pc = "closure"
  /\ \E init_ok \in BOOLEAN :
       LET ml_enabled == is_ml_scanning_enabled
           built == BuildScanner(ml_enabled, init_ok, constructions + 1)
           stored == IF cell.state = "complete" THEN cell
                     ELSE [state |-> "complete", value |-> built,
                           ml_requested |-> ml_enabled,
                           ml_init_failed |-> ml_enabled /\ ~init_ok]
       IN  /\ cell' = stored
           /\ caller' = [caller EXCEPT ![c].pc = "loop", ![c].scanner = stored.value]
  /\ constructions' = constructions + 1
  /\ UNCHANGED <<config, scan, infer, lookup, extraction>>

\* What one iteration of the loop does with a tool request whose payload
\* parsed: the verdict, the threshold read after it, and whether a
\* SecurityResult is pushed.
Decision(i, matches, scanner, outcome) ==
  LET result == scan_for_dangerous_patterns(matches, scanner, outcome)
      config_threshold == get_threshold_from_config(config)
  IN  [index |-> i, parsed |-> TRUE, ok |-> result.ok,
       is_malicious |-> result.is_malicious,
       confidence |-> result.confidence,
       explanation |-> result.explanation,
       pattern_confidence |-> scan_with_patterns(matches),
       classifier |-> outcome.kind,
       config_threshold |-> config_threshold,
       above_threshold |-> result.confidence > config_threshold]

\* `if let Ok(tool_call) = &tool_request.tool_call` fails: nothing is done.
Skipped(i) ==
  [index |-> i, parsed |-> FALSE, ok |-> TRUE, is_malicious |-> FALSE,
   confidence |-> 0, explanation |-> NoThreats, pattern_confidence |-> 0,
   classifier |-> "NoCall", config_threshold |-> 0, above_threshold |-> FALSE]

\* The SecurityResult pushed for a decision; finding_id, a fresh
\* Uuid::new_v4(), is named by the iteration that generates it.
SecurityResult(c, request, d) ==
  [is_malicious |-> d.is_malicious,
   confidence |-> d.confidence,
   explanation |-> d.explanation,
   should_ask_user |-> TRUE,
   finding_id |-> <<"SEC", c, d.index>>,
   tool_request_id |-> request.id,
   index |-> d.index]

\* Variant: a verdict at the threshold is pushed too (`>=` for `>`).
Push_at_threshold(results, c, request, d) ==
  IF d.is_malicious /\ d.confidence >= d.config_threshold
    THEN Append(results, SecurityResult(c, request, d))
    ELSE results

\* Variant: one finding per tool-call identifier.
Push_dedup(results, c, request, d) ==
  IF d.is_malicious /\ d.above_threshold
       /\ \A j \in 1..Len(results) : results[j].tool_request_id # request.id
    THEN Append(results, SecurityResult(c, request, d))
    ELSE results

\* Variant: the threshold alone decides, is_malicious is not looked at.
Push_above_only(results, c, request, d) ==
  IF d.above_threshold
    THEN Append(results, SecurityResult(c, request, d))
    ELSE results

\* The results vector after an iteration that decided d.
Push(results, c, request, d) ==
  IF d.is_malicious
    THEN (IF d.above_threshold
            THEN Append(results, SecurityResult(c, request, d))
            ELSE results)
    ELSE results

\* One iteration of `for tool_request in tool_requests.iter()`.
ToolRequestStep(c) ==
  LET me == caller[c]
      request == me.tool_requests[me.i]
  IN
  /\ me.pc = "loop"
  /\ me.i <= Len(me.tool_requests)
  /\ UNCHANGED <<config, cell, constructions, scan, infer, lookup, extraction>>
  /\ IF ~request.tool_call.ok
       THEN caller' = [caller EXCEPT ![c].i = me.i + 1,
                         ![c].trace = Append(me.trace, Skipped(me.i))]
       ELSE \E matches \in MatchOrders(extract_tool_content(request.tool_call)),
               outcome \in (IF me.scanner.ml_detector THEN BackendOutcomes ELSE {NoCall}) :
              LET d == Decision(me.i, matches, me.scanner, outcome)
                  made == IF me.scanner.ml_detector THEN 1 ELSE 0
              IN  IF ~d.ok
                    \* `.await?`: the error leaves analyze_tool_requests
                    THEN caller' = [caller EXCEPT ![c].pc = "returned",
                              ![c].classifier_calls = me.classifier_calls + made,
                              ![c].trace = Append(me.trace, d),
                              ![c].ret = [ok |-> FALSE, value |-> << >>]]
                    ELSE caller' = [caller EXCEPT ![c].i = me.i + 1,
                              ![c].classifier_calls = me.classifier_calls + made,
                              ![c].trace = Append(me.trace, d),
                              ![c].results = Push(me.results, c, request, d)]

\* Ok(results) after the loop.
Return(c) ==
  /\ caller[c].pc = "loop"
  /\ caller[c].i > Len(caller[c].tool_requests)
  /\ caller' = [caller EXCEPT ![c].pc = "returned",
                              ![c].ret = [ok |-> TRUE, value |-> caller[c].results]]
  /\ UNCHANGED <<config, cell, constructions, scan, infer, lookup, extraction>>

\* The caller has taken the result; it may call again.
Done(c) ==
  /\ caller[c].pc = "returned"
  /\ caller' = [caller EXCEPT ![c] = Idle]
  /\ UNCHANGED <<config, cell, constructions, scan, infer, lookup, extraction>>

(***************************************************************************)
(* The configuration changes under the running process.                    *)
(***************************************************************************)
SetPromptEnabled ==
  /\ config' = [config EXCEPT !.security_prompt_enabled = ~@]
  /\ UNCHANGED <<cell, constructions, caller, scan, infer, lookup, extraction>>

SetMlEnabled ==
  /\ config' = [config EXCEPT !.security_prompt_ml_enabled = ~@]
  /\ UNCHANGED <<cell, constructions, caller, scan, infer, lookup, extraction>>

SetThreshold ==
  /\ \E t \in Thresholds \ {config.security_prompt_threshold} :
       config' = [config EXCEPT !.security_prompt_threshold = t]
  /\ UNCHANGED <<cell, constructions, caller, scan, infer, lookup, extraction>>

\* The callers call analyze_tool_requests while the configuration changes.
Next ==
  \/ \E c \in Callers : AnalyzeToolRequests(c)
  \/ \E c \in Callers : GetOrInitReady(c)
  \/ \E c \in Callers : GetOrInitBegin(c)
  \/ \E c \in Callers : InitClosure(c)
  \/ \E c \in Callers : ToolRequestStep(c)
  \/ \E c \in Callers : Return(c)
  \/ \E c \in Callers : Done(c)
  \/ SetPromptEnabled
  \/ SetMlEnabled
  \/ SetThreshold

Spec == Init /\ [][Next]_vars

\* The callers call analyze_tool_requests and filter_malicious_tool_calls
\* under a configuration, any one, that stays as it is.
NextFilter ==
  \/ \E c \in Callers : AnalyzeToolRequests(c)
  \/ \E c \in Callers : FilterMaliciousToolCalls(c)
  \/ \E c \in Callers : GetOrInitReady(c)
  \/ \E c \in Callers : GetOrInitBegin(c)
  \/ \E c \in Callers : InitClosure(c)
  \/ \E c \in Callers : ToolRequestStep(c)
  \/ \E c \in Callers : Return(c)
  \/ \E c \in Callers : Done(c)

SpecFilter == Init /\ [][NextFilter]_vars

(***************************************************************************)
(* The scanner on its own: one evaluation of a text by a scanner with or   *)
(* without a classifier.                                                   *)
(***************************************************************************)
InitScan ==
  /\ config \in [security_prompt_enabled : {TRUE},
                 security_prompt_ml_enabled : {FALSE},
                 security_prompt_threshold : Thresholds]
  /\ cell = EmptyCell
  /\ constructions = 0
  /\ caller = [c \in Callers |-> Idle]
  /\ scan \in { [NoScan EXCEPT !.text = t, !.ml_detector = ml] :
                  t \in Texts, ml \in BOOLEAN }
  /\ infer = NoInfer
  /\ lookup = NoLookup
  /\ extraction = NoExtraction

\* scan_for_dangerous_patterns(text).
ScanForDangerousPatterns ==
  /\ ~scan.done
  /\ \E matches \in MatchOrders(scan.text),
        outcome \in (IF scan.ml_detector THEN MlOutcomes ELSE {NoCall}) :
       scan' = [scan EXCEPT !.done = TRUE, !.matches = matches, !.outcome = outcome,
                  !.result = scan_for_dangerous_patterns(
                               matches, NewScanner(scan.ml_detector, 1), outcome)]
  /\ UNCHANGED <<config, cell, constructions, caller, infer, lookup, extraction>>

NextScan == ScanForDangerousPatterns

SpecScan == InitScan /\ [][NextScan]_vars

(***************************************************************************)
(* Properties                                                              *)
(***************************************************************************)
\* The caller is past get_or_init of a call that found scanning enabled.
Scanning(c) == caller[c].enabled /\ caller[c].pc \in {"loop", "returned"}

RmRequest == CHOOSE r \in ToolRequestPool : r.id = "req_rm"

\* The pattern-only confidence of a parsed tool request, from its content.
PatternOnly(request) ==
  scan_with_patterns(scan_text(extract_tool_content(request.tool_call)))

\* C1: a call of analyze_tool_requests that finds the 'scanning enabled'
\* flag false returns Ok(empty list) in that very step, whatever the batch
\* holds, leaves the OnceLock cell as it was (no construction) and makes no
\* classifier call.
C1_DisabledReturnsEmpty ==
  [][\A c \in Callers :
       (/\ caller[c].pc = "idle"
        /\ caller'[c].pc # "idle"
        /\ ~config.security_prompt_enabled)
       => /\ caller'[c].pc = "returned"
          /\ caller'[c].ret = [ok |-> TRUE, value |-> << >>]
          /\ caller'[c].classifier_calls = 0
          /\ cell' = cell
          /\ constructions' = constructions]_vars

\* A disabled call has returned the empty list for a batch that holds the
\* recursive delete, and the cell is still uninitialised.
C1_Witness ==
  \E c \in Callers :
    /\ caller[c].pc = "returned"
    /\ ~caller[c].enabled
    /\ \E k \in 1..Len(caller[c].tool_requests) : caller[c].tool_requests[k] = RmRequest
    /\ caller[c].ret = [ok |-> TRUE, value |-> << >>]
    /\ cell.state = "incomplete"
    /\ constructions = 0

\* C2: the closure of get_or_init runs at most once, exactly once when the
\* cell holds a scanner, and every caller past get_or_init holds the one
\* scanner instance stored in the cell.
C2_SingleConstruction ==
  /\ constructions <= 1
  /\ cell.state = "complete" <=> constructions = 1
  /\ \A c \in Callers :
       Scanning(c) => /\ cell.state = "complete"
                      /\ caller[c].scanner = cell.value
                      /\ caller[c].scanner.inst = 1

\* Both callers are inside enabled calls at the same time, past
\* get_or_init, one of them having run the closure.
C2_Witness ==
  /\ \A c \in Callers : caller[c].enabled /\ caller[c].pc = "loop"
  /\ constructions = 1

\* C3: a failed classifier call yields a verdict, not an error, whose
\* confidence is the pattern-only confidence of the tool call; an enabled
\* call returns Ok(list) after it has gone through every tool request.
C3_ClassifierFailureAbsorbed ==
  \A c \in Callers :
    Scanning(c) =>
      /\ \A k \in 1..Len(caller[c].trace) :
           caller[c].trace[k].classifier = "Err" =>
             /\ caller[c].trace[k].ok
             /\ caller[c].trace[k].confidence = PatternOnly(caller[c].tool_requests[k])
      /\ caller[c].pc = "returned" =>
           /\ caller[c].ret.ok
           /\ Len(caller[c].trace) = Len(caller[c].tool_requests)

\* The classifier failed on the first tool request of a batch of two, and
\* the call went on to the second and returned.
C3_Witness ==
  \E c \in Callers :
    /\ Scanning(c)
    /\ caller[c].pc = "returned"
    /\ Len(caller[c].trace) = 2
    /\ caller[c].trace[1].classifier = "Err"
    /\ caller[c].trace[1].confidence = 95
    /\ Len(caller[c].ret.value) >= 1

\* C4: when the classifier was requested and failed to initialise, the
\* cell holds a scanner without a classifier adapter, the callers go on
\* with it, make no classifier call, and no call returns an error.
C4_InitFailureFallsBack ==
  cell.ml_init_failed =>
    /\ cell.state = "complete"
    /\ cell.ml_requested
    /\ ~cell.value.ml_detector
    /\ \A c \in Callers :
         Scanning(c) => /\ ~caller[c].scanner.ml_detector
                        /\ caller[c].classifier_calls = 0
                        /\ caller[c].pc = "returned" => caller[c].ret.ok

\* After a failed classifier initialisation, a call has returned a finding
\* for the recursive delete.
C4_Witness ==
  /\ cell.ml_init_failed
  /\ \E c \in Callers :
       /\ Scanning(c)
       /\ caller[c].pc = "returned"
       /\ Len(caller[c].ret.value) = 1
       /\ caller[c].ret.value[1].tool_request_id = "req_rm"

\* The classifier signal of an evaluation, 0 when absent or failed.
MlOrZero(outcome) == IF outcome.kind = "Val" THEN outcome.v ELSE 0

\* C5: for a classifier that is absent, failed, or returned a value in
\* [0,1], the confidence of the verdict is the larger of the pattern
\* confidence and the classifier confidence (0 if there is none): not below
\* either, not above the larger, and in [0,1].
C5_FusedIsMax ==
  (scan.done /\ scan.outcome.kind \in {"NoCall", "Err", "Val"}) =>
    LET p == scan_with_patterns(scan_text(scan.text))
        m == MlOrZero(scan.outcome)
    IN  /\ scan.result.confidence >= p
        /\ scan.result.confidence >= m
        /\ scan.result.confidence \in {p, m}
        /\ scan.result.confidence \in 0..100

\* A High-tier text with a classifier value of 0.9 between the tiers.
C5_Witness ==
  /\ scan.done
  /\ scan.outcome = MlOk(90)
  /\ scan_with_patterns(scan_text(scan.text)) = 85
  /\ scan.result.confidence = 90

\* C6 as stated: the malicious flag of a verdict is its confidence compared
\* (>=) with the configured threshold.
C6_Original ==
  scan.done =>
    (scan.result.is_malicious
       <=> scan.result.confidence >= get_threshold_from_config(config))

\* C6: the malicious flag of a verdict is its confidence compared (>=) with
\* the fixed cutoff 0.5, whatever threshold is configured.
C6_FixedCutoff ==
  scan.done => (scan.result.is_malicious <=> scan.result.confidence >= 50)

\* A Medium-tier verdict (0.6) under the default threshold 0.7: malicious,
\* though below the threshold.
C6_Witness ==
  /\ scan.done
  /\ ~config.security_prompt_threshold.some
  /\ scan.result.confidence = 60
  /\ scan.result.is_malicious

\* The verdict of iteration k asks for a finding: the payload parsed, the
\* verdict is malicious and its confidence is above the threshold read.
Flagged(c, k) ==
  /\ caller[c].tool_requests[k].tool_call.ok
  /\ caller[c].trace[k].is_malicious
  /\ caller[c].trace[k].confidence > caller[c].trace[k].config_threshold

\* C7: in an enabled call, the results hold a finding of tool call k if and
\* only if its payload parsed, its verdict is malicious and the confidence
\* strictly exceeds the threshold; every finding has should_ask_user and
\* is_malicious set and carries the identifier of its tool call.
C7_FindingIffAboveThreshold ==
  \A c \in Callers :
    Scanning(c) =>
      /\ \A k \in 1..Len(caller[c].trace) :
           (\E j \in 1..Len(caller[c].results) : caller[c].results[j].index = k)
             <=> Flagged(c, k)
      /\ \A j \in 1..Len(caller[c].results) :
           LET f == caller[c].results[j]
           IN  /\ f.index \in 1..Len(caller[c].trace)
               /\ f.should_ask_user
               /\ f.is_malicious
               /\ f.confidence = caller[c].trace[f.index].confidence
               /\ f.tool_request_id = caller[c].tool_requests[f.index].id
      /\ caller[c].pc = "returned" => caller[c].ret.value = caller[c].results

\* A call has returned one finding for a batch of two malicious verdicts:
\* the first above the threshold, the second exactly at it.
C7_Witness ==
  \E c \in Callers :
    /\ Scanning(c)
    /\ caller[c].pc = "returned"
    /\ Len(caller[c].trace) = 2
    /\ caller[c].trace[2].is_malicious
    /\ caller[c].trace[2].confidence = caller[c].trace[2].config_threshold
    /\ Len(caller[c].ret.value) = 1
    /\ caller[c].ret.value[1].index = 1

\* C8: the findings are in the order of their tool calls in the batch, one
\* per flagged tool call, none merged; the batch of
\* filter_malicious_tool_calls is the approved requests followed by the
\* needs-approval requests.
C8_OrderedNotMerged ==
  \A c \in Callers :
    Scanning(c) =>
      /\ \A j, k \in 1..Len(caller[c].results) :
           j < k => caller[c].results[j].index < caller[c].results[k].index
      /\ Len(caller[c].results)
           = Cardinality({k \in 1..Len(caller[c].trace) : Flagged(c, k)})
      /\ \A j \in 1..Len(caller[c].results) :
           caller[c].results[j].tool_request_id
             = caller[c].tool_requests[caller[c].results[j].index].id
      /\ caller[c].entry = "filter_malicious_tool_calls" =>
           /\ Len(caller[c].tool_requests)
                = Len(caller[c].approved) + Len(caller[c].needs_approval)
           /\ \A k \in 1..Len(caller[c].approved) :
                caller[c].tool_requests[k] = caller[c].approved[k]
           /\ \A k \in 1..Len(caller[c].needs_approval) :
                caller[c].tool_requests[Len(caller[c].approved) + k]
                  = caller[c].needs_approval[k]

\* filter_malicious_tool_calls has returned two findings for an approved
\* and a needs-approval request that are the same recursive delete.
C8_Witness ==
  \E c \in Callers :
    /\ Scanning(c)
    /\ caller[c].pc = "returned"
    /\ caller[c].entry = "filter_malicious_tool_calls"
    /\ caller[c].approved = <<RmRequest>>
    /\ caller[c].needs_approval = <<RmRequest>>
    /\ Len(caller[c].ret.value) = 2
    /\ caller[c].ret.value[1].index = 1
    /\ caller[c].ret.value[2].index = 2
    /\ caller[c].ret.value[1].tool_request_id = caller[c].ret.value[2].tool_request_id

\* The destructive-command signatures a text contains.
DestructiveIn(text) ==
  { text[i] : i \in { n \in 1..Len(text) :
                        text[n] \in SignatureWords /\ ThreatPatterns[text[n]].destructive } }

\* The explanation names the description of signature w.
Names(explanation, w) ==
  \E j \in 1..Len(explanation.pattern_details) :
    explanation.pattern_details[j].description = ThreatPatterns[w].description

\* C9 as stated: a text that contains a destructive-command signature is
\* reported malicious with a confidence of at least the High-tier value,
\* and the explanation names the signature's description, whatever else the
\* text matches.
C9_Original ==
  scan.done =>
    \A w \in DestructiveIn(scan.text) :
      /\ scan.result.is_malicious
      /\ scan.result.confidence >= confidence_score("High")
      /\ Names(scan.result.explanation, w)

\* C9: a text that contains a destructive-command signature is reported
\* malicious with a confidence of at least the High-tier value; the
\* explanation names the signature's description if one of its matches is
\* among the first three matches scan_text returned, so always when the
\* text has at most three matches.
C9_DestructiveNamedAmongFirstThree ==
  scan.done =>
    \A w \in DestructiveIn(scan.text) :
      /\ scan.result.is_malicious
      /\ scan.result.confidence >= confidence_score("High")
      /\ (\/ Len(scan.matches) <= 3
          \/ \E j \in 1..3 : scan.matches[j].threat.name = w)
           => Names(scan.result.explanation, w)

\* A text of three matches, the recursive delete last of them, evaluated
\* with its description in the explanation.
C9_Witness ==
  /\ scan.done
  /\ Len(scan.matches) = 3
  /\ scan.matches[3].threat.name = "rm_rf_root"
  /\ scan.matches[1].threat.name # "rm_rf_root"
  /\ scan.matches[2].threat.name # "rm_rf_root"
  /\ scan.result.confidence = 95
  /\ Names(scan.result.explanation, "rm_rf_root")

\* C10: a text that matches no signature, evaluated by a scanner without a
\* classifier adapter, gets confidence exactly 0.0 and a benign verdict.
C10_NoSignatureNoClassifier ==
  (/\ scan.done
   /\ ~scan.ml_detector
   /\ \A i \in 1..Len(scan.text) : scan.text[i] \notin SignatureWords)
  => /\ scan.result.confidence = 0
     /\ ~scan.result.is_malicious

\* A text of two words no signature matches has been evaluated without a
\* classifier.
C10_Witness ==
  /\ scan.done
  /\ ~scan.ml_detector
  /\ scan.text = <<"ls", "ls">>
  /\ scan.result.confidence = 0

\* C11 as stated: a benign verdict carries the fixed 'no threats detected'
\* message, whatever its confidence.
C11_Original ==
  (scan.done /\ ~scan.result.is_malicious) => scan.result.explanation = NoThreats

\* C11: the explanation of a verdict is the fixed 'no threats detected'
\* message exactly when its confidence is 0.0, and such a verdict is
\* benign; a benign verdict of non-zero confidence carries the details of
\* the signals that produced it.
C11_FixedMessageIffZero ==
  scan.done =>
    /\ scan.result.explanation = NoThreats <=> scan.result.confidence = 0
    /\ scan.result.confidence = 0 => ~scan.result.is_malicious
    /\ scan.result.confidence # 0 =>
         /\ ~scan.result.explanation.none
         /\ \/ Len(scan.result.explanation.pattern_details) > 0
            \/ scan.result.explanation.ml_part.some

\* A text that matches only the Low-tier signature, evaluated without a
\* classifier: benign at 0.3, and explained by its match.
C11_Witness ==
  /\ scan.done
  /\ ~scan.ml_detector
  /\ scan.text = <<"env_access">>
  /\ ~scan.result.is_malicious
  /\ scan.result.confidence = 30
  /\ Len(scan.result.explanation.pattern_details) = 1


(***************************************************************************)
(* gondola.rs, prompt_ml_detector.rs: one classifier call.  The backend's  *)
(* answer is a transport status and a body; a body that parses is the      *)
(* list of response items of a BatchInferResponse.  Raw scores are f64     *)
(* values in tenths (1000.1 is 10001).                                     *)
(***************************************************************************)
\* The longest score list of a response item.
MaxScores == 3

\* The raw scores a response carries.
Logits == {-10000, 0, 20, 10000, 10001}

\* f64::exp overflows to infinity above 709.78 and underflows to 0.0
\* below -745.13.
ExpOverflow == 7097
ExpUnderflow == -7452

\* An f64 that is not NaN: infinity, or the finite sum of e^x over its terms
\* (0.0 is the empty sum).
F64Inf == [kind |-> "inf", terms |-> << >>]
F64Sum(terms) == [kind |-> "fin", terms |-> terms]

\* f64::exp
Exp(x) ==
  IF x > ExpOverflow THEN F64Inf
  ELSE IF x < ExpUnderflow THEN F64Sum(<< >>)
  ELSE F64Sum(<<x>>)

\* f64 addition of two such values.
F64Add(a, b) ==
  IF a.kind = "inf" \/ b.kind = "inf" THEN F64Inf ELSE F64Sum(a.terms \o b.terms)

\* e^d / (1 + e^d) in hundredths, d in tenths.
Sigmoid(d) ==
  CASE d = 0 -> 50
    [] d = 20 -> 88
    [] d = -20 -> 12

\* (num / sum) as f32 where num is an exponential and sum is another
\* exponential plus num: inf / inf and 0.0 / 0.0 are NaN, a finite value
\* over infinity is 0.0, and e^m / (e^s + e^m) is e^(m-s) / (1 + e^(m-s)).
F64Div(num, sum) ==
  IF num.kind = "inf" THEN MlNaN
  ELSE IF sum.kind = "inf" THEN MlOk(0)
  ELSE IF Len(sum.terms) = 0 THEN MlNaN
  ELSE IF Len(num.terms) = 0 THEN MlOk(0)
  ELSE IF Len(sum.terms) = 1 THEN MlOk(100)
  ELSE MlOk(Sigmoid(num.terms[1] - sum.terms[1]))

\* ResponseItem: double_list_value is optional.
NoList == [some |-> FALSE, double_values |-> << >>]
DoubleListValue(values) == [some |-> TRUE, double_values |-> values]
ResponseItem(list) == [double_list_value |-> list]

ScoreLists == SeqsUpTo(Logits, MaxScores)
ResponseItems ==
  { << >> } \cup
  { <<ResponseItem(first)>> \o rest :
      first \in {NoList} \cup { DoubleListValue(l) : l \in ScoreLists },
      rest \in { << >>, <<ResponseItem(NoList)>>,
                 <<ResponseItem(DoubleListValue(<<0, 20>>))>> } }

\* What the backend answers: the request is not answered (connection
\* failure, timeout), or a status and a body that parses or not.
Answers ==
  { [status |-> "send_failed", parses |-> FALSE, response_items |-> << >>] }
  \cup { [status |-> st, parses |-> FALSE, response_items |-> << >>] :
           st \in {"ok", "non_success"} }
  \cup { [status |-> st, parses |-> TRUE, response_items |-> items] :
           st \in {"ok", "non_success"}, items \in ResponseItems }

\* Variant: the status of the response is not looked at.
batch_infer_any_status(answer) ==
  IF answer.status = "send_failed" THEN [ok |-> FALSE, response_items |-> << >>]
  ELSE IF ~answer.parses THEN [ok |-> FALSE, response_items |-> << >>]
  ELSE [ok |-> TRUE, response_items |-> answer.response_items]

\* GondolaProvider::batch_infer: Err or Ok(BatchInferResponse).
batch_infer(answer) ==
  IF answer.status = "send_failed" THEN [ok |-> FALSE, response_items |-> << >>]
  ELSE IF answer.status # "ok" THEN [ok |-> FALSE, response_items |-> << >>]
  ELSE IF ~answer.parses THEN [ok |-> FALSE, response_items |-> << >>]
  ELSE [ok |-> TRUE, response_items |-> answer.response_items]

\* MlDetector::scan on the backend's answer.
MlDetector_scan(answer) ==
  LET response == batch_infer(answer)
  IN  IF ~response.ok THEN MlErr
      ELSE IF Len(response.response_items) = 0 THEN MlErr
      ELSE LET item == response.response_items[1]
           IN  IF ~item.double_list_value.some THEN MlErr
               ELSE LET logits == item.double_list_value.double_values
                    IN  IF Len(logits) < 2 THEN MlErr
                        ELSE LET exp_safe == Exp(logits[1])
                                 exp_malicious == Exp(logits[2])
                                 sum == F64Add(exp_safe, exp_malicious)
                             IN  F64Div(exp_malicious, sum)

InitInfer ==
  /\ config \in [security_prompt_enabled : {TRUE},
                 security_prompt_ml_enabled : {TRUE},
                 security_prompt_threshold : {None}]
  /\ cell = EmptyCell
  /\ constructions = 0
  /\ caller = [c \in Callers |-> Idle]
  /\ scan = NoScan
  /\ infer \in { [NoInfer EXCEPT !.answer = a] : a \in Answers }
  /\ lookup = NoLookup
  /\ extraction = NoExtraction

\* detector.scan(text).await
Infer ==
  /\ ~infer.done
  /\ infer' = [infer EXCEPT !.done = TRUE, !.outcome = MlDetector_scan(infer.answer)]
  /\ UNCHANGED <<config, cell, constructions, caller, scan, lookup, extraction>>

NextInfer == Infer

SpecInfer == InitInfer /\ [][NextInfer]_vars

\* The raw scores of the first response item, when scan gets as far as
\* reading two of them.
TwoScores ==
  /\ infer.answer.status = "ok" /\ infer.answer.parses
  /\ Len(infer.answer.response_items) > 0
  /\ infer.answer.response_items[1].double_list_value.some
  /\ Len(infer.answer.response_items[1].double_list_value.double_values) >= 2
FirstScores == infer.answer.response_items[1].double_list_value.double_values

\* C12: for raw scores whose exponentials overflow, such as (1000.0,
\* 1000.1), scan returns a malicious probability that is finite and
\* strictly between 0 and 1, never NaN.
C12_StableSoftmax ==
  (infer.done /\ TwoScores
     /\ FirstScores[1] > ExpOverflow /\ FirstScores[2] > ExpOverflow) =>
    /\ infer.outcome.kind = "Val"
    /\ infer.outcome.v > 0 /\ infer.outcome.v < 100

\* C13: scan returns an error, never a confidence, when the backend call
\* fails or answers a non-success status, the body does not parse, there is
\* no response item, the first item has no score list or the list has fewer
\* than two scores; it returns a confidence in every other case.
C13_ErrorUnlessTwoScores ==
  infer.done =>
    /\ infer.answer.status # "ok" => infer.outcome = MlErr
    /\ ~infer.answer.parses => infer.outcome = MlErr
    /\ Len(infer.answer.response_items) = 0 => infer.outcome = MlErr
    /\ (Len(infer.answer.response_items) > 0
          /\ ~infer.answer.response_items[1].double_list_value.some) =>
         infer.outcome = MlErr
    /\ (Len(infer.answer.response_items) > 0
          /\ Len(infer.answer.response_items[1].double_list_value.double_values) < 2) =>
         infer.outcome = MlErr
    /\ infer.outcome.kind \in {"Val", "NaN"} <=> TwoScores

C13_Witness ==
  /\ infer.done /\ infer.outcome = MlErr
  /\ infer.answer.status = "ok" /\ infer.answer.parses
  /\ Len(infer.answer.response_items) = 2
  /\ infer.answer.response_items[1].double_list_value.double_values = <<20>>
  /\ infer.answer.response_items[2].double_list_value.double_values = <<0, 20>>


(***************************************************************************)
(* prompt_ml_detector.rs: ModelConfig.  A model name is the sequence of    *)
(* its segments.                                                           *)
(***************************************************************************)
\* Most segments of a configured model name.
MaxNameLen == 3

NameSegments == {"deberta", "-prompt-injection", "-v2", "-v3", "bert"}
ModelNames == SeqsUpTo(NameSegments, MaxNameLen)

DEFAULT_MODEL_NAME == <<"deberta", "-prompt-injection", "-v2">>

\* ModelConfig::model_registry(): model name to (version, input name).
model_registry ==
  [n \in {DEFAULT_MODEL_NAME} |->
     [version |-> "gmv-zve9abhxe9s7fq1zep5dxd807", input_name |-> "text_input"]]

\* Ok(ModelConfig), and the Err with the name and the registry's keys its
\* message holds.
OkConfig(model, version, input_name) ==
  [ok |-> TRUE, model |-> model, version |-> version, input_name |-> input_name,
   unknown |-> << >>, available |-> {}]
UnknownModel(model_name, available) ==
  [ok |-> FALSE, model |-> << >>, version |-> "", input_name |-> "",
   unknown |-> model_name, available |-> available]

\* Variant: a name the registry does not hold gets the default model.
from_model_name_or_default(model_name) ==
  LET registry == model_registry
      name == IF model_name \in DOMAIN registry THEN model_name ELSE DEFAULT_MODEL_NAME
  IN  OkConfig(name, registry[name].version, registry[name].input_name)

\* ModelConfig::from_model_name
from_model_name(model_name) ==
  LET registry == model_registry
  IN  IF model_name \notin DOMAIN registry
        THEN UnknownModel(model_name, DOMAIN registry)
        ELSE OkConfig(model_name, registry[model_name].version,
                      registry[model_name].input_name)

\* The name from_config hands to from_model_name: security_ml_model, the
\* default when the parameter is not set.
ConfiguredName(security_ml_model) ==
  IF security_ml_model.some THEN security_ml_model.name ELSE DEFAULT_MODEL_NAME

\* ModelConfig::from_config
from_config(security_ml_model) == from_model_name(ConfiguredName(security_ml_model))

InitLookup ==
  /\ config \in [security_prompt_enabled : {TRUE},
                 security_prompt_ml_enabled : {TRUE},
                 security_prompt_threshold : {None}]
  /\ cell = EmptyCell
  /\ constructions = 0
  /\ caller = [c \in Callers |-> Idle]
  /\ scan = NoScan
  /\ infer = NoInfer
  /\ lookup \in {NoLookup} \cup
       { [NoLookup EXCEPT !.security_ml_model = [some |-> TRUE, name |-> n]] :
           n \in ModelNames }
  /\ extraction = NoExtraction

\* ModelConfig::from_config()
Lookup ==
  /\ ~lookup.done
  /\ lookup' = [lookup EXCEPT !.done = TRUE,
                              !.result = from_config(lookup.security_ml_model)]
  /\ UNCHANGED <<config, cell, constructions, caller, scan, infer, extraction>>

NextLookup == Lookup

SpecLookup == InitLookup /\ [][NextLookup]_vars

\* C14: a lookup with a name that is not in the registry is an error whose
\* message lists every registered name, never a configuration; with a
\* registered name it is that entry's version and input name.
C14_UnknownModelIsError ==
  lookup.done =>
    LET name == ConfiguredName(lookup.security_ml_model)
    IN  IF name = <<"deberta", "-prompt-injection", "-v2">>
          THEN /\ lookup.result.ok
               /\ lookup.result.model = name
               /\ lookup.result.version = "gmv-zve9abhxe9s7fq1zep5dxd807"
               /\ lookup.result.input_name = "text_input"
          ELSE /\ ~lookup.result.ok
               /\ lookup.result.unknown = name
               /\ lookup.result.available = {<<"deberta", "-prompt-injection", "-v2">>}

C14_Witness ==
  /\ lookup.done
  /\ lookup.security_ml_model.some
  /\ lookup.security_ml_model.name = <<"deberta", "-prompt-injection", "-v3">>
  /\ ~lookup.result.ok
  /\ lookup.result.available = {DEFAULT_MODEL_NAME}


(***************************************************************************)
(* scanner.rs: extract_tool_content on nested arguments.  The arguments    *)
(* are a tower of containers: the container at depth d holds a scalar      *)
(* that prints its own depth d + 1 and the container of the next level;    *)
(* the innermost container holds the leaf.                                 *)
(***************************************************************************)
\* Deepest nesting of the arguments of a tool call.
MaxNest == 12

\* What the containers below the root are, and what the scalars are.
ContainerKinds == {"array", "object", "command"}
ScalarKinds == {"String", "Number"}
Leaves == {Null, Bool("true"), Str(<<" ">>), Str(<<"rm_rf_root">>)}

\* The scalar at depth d.
DepthScalar(d, sk) == IF sk = "String" THEN Str(<<ToString(d)>>) ELSE Number(ToString(d))

RECURSIVE Tower(_, _, _, _, _)
\* The value at depth d of a tower of n levels; the root is a JSON object.
Tower(d, n, ck, sk, leaf) ==
  IF d = n THEN leaf
  ELSE LET inner == Tower(d + 1, n, ck, sk, leaf)
       IN  IF d > 0 /\ ck = "array"
             THEN Array(<<DepthScalar(d + 1, sk), inner>>)
             ELSE Object(<< <<"note", DepthScalar(d + 1, sk)>>,
                            <<IF ck = "command" THEN "command" ELSE "args", inner>> >>)

\* The tool calls: no arguments, or a tower.
NestedCalls ==
  { [NoExtraction EXCEPT !.levels = n, !.leaf = leaf,
                         !.tool_call = OkCall("run", Tower(0, n, ck, sk, leaf))] :
      n \in 1..MaxNest, ck \in ContainerKinds, sk \in ScalarKinds, leaf \in Leaves }

InitExtract ==
  /\ config \in [security_prompt_enabled : {TRUE},
                 security_prompt_ml_enabled : {FALSE},
                 security_prompt_threshold : {None}]
  /\ cell = EmptyCell
  /\ constructions = 0
  /\ caller = [c \in Callers |-> Idle]
  /\ scan = NoScan
  /\ infer = NoInfer
  /\ lookup = NoLookup
  /\ extraction \in {NoExtraction} \cup NestedCalls

\* self.extract_tool_content(tool_call)
Extract ==
  /\ ~extraction.done
  /\ extraction' = [extraction EXCEPT
                      !.done = TRUE,
                      !.content = extract_tool_content(extraction.tool_call)]
  /\ UNCHANGED <<config, cell, constructions, caller, scan, infer, lookup>>

NextExtract == Extract

SpecExtract == InitExtract /\ [][NextExtract]_vars

\* The extracted text holds the word w.
Extracted(w) == \E i \in 1..Len(extraction.content) : extraction.content[i] = w

\* C15: extract_tool_content returns a text for every tower of arguments,
\* the tool's name first; with the arguments at depth 0, the scalar at depth
\* d is in the text exactly if d is at most 10, and the leaf at depth n, when
\* it prints, exactly if n is at most 10.
C15_DepthBound ==
  extraction.done =>
    /\ Len(extraction.content) >= 2
    /\ extraction.content[1] = "Tool: "
    /\ extraction.content[2] = extraction.tool_call.name
    /\ \A d \in 1..extraction.levels : Extracted(ToString(d)) <=> d <= 10
    /\ extraction.leaf = Str(<<"rm_rf_root">>) =>
         (Extracted("rm_rf_root") <=> extraction.levels <= 10)
    /\ extraction.leaf = Bool("true") =>
         (Extracted("true") <=> extraction.levels <= 10)

C15_Witness ==
  /\ extraction.done
  /\ extraction.levels = 12
  /\ extraction.leaf = Str(<<"rm_rf_root">>)
  /\ Extracted("10")
  /\ ~Extracted("11")
  /\ ~Extracted("rm_rf_root")


(***************************************************************************)
(* The findings against both cutoffs, and what is read when.               *)
(***************************************************************************)
\* C16: every finding has a confidence of at least 0.5 and above the
\* threshold read for its tool call, whatever the threshold; a verdict
\* below 0.5, or exactly at the threshold, leaves no finding.
C16_FindingAboveBothCutoffs ==
  \A c \in Callers :
    Scanning(c) =>
      /\ \A j \in 1..Len(caller[c].results) :
           LET f == caller[c].results[j]
           IN  /\ f.confidence >= 50
               /\ f.confidence > caller[c].trace[f.index].config_threshold
      /\ \A k \in 1..Len(caller[c].trace) :
           (\/ caller[c].trace[k].confidence < 50
            \/ caller[c].trace[k].confidence = caller[c].trace[k].config_threshold) =>
             \A j \in 1..Len(caller[c].results) : caller[c].results[j].index # k

\* Under a threshold of 0.2, a call has returned the finding of the
\* recursive delete and none for the verdict of confidence 0.3 before it.
C16_Witness ==
  \E c \in Callers :
    /\ Scanning(c)
    /\ caller[c].pc = "returned"
    /\ Len(caller[c].trace) = 2
    /\ caller[c].trace[1].confidence = 30
    /\ caller[c].trace[1].config_threshold = 20
    /\ caller[c].trace[2].config_threshold = 20
    /\ Len(caller[c].ret.value) = 1
    /\ caller[c].ret.value[1].index = 2
    /\ caller[c].ret.value[1].confidence = 95

\* C17: the cell, once it holds a scanner, never changes, whatever the
\* classifier flag becomes and whether the classifier initialised or not;
\* the scanner stored has a classifier only if the flag was set when the
\* closure ran; every call reads the enabled flag when it starts, and every
\* iteration reads the threshold and uses the stored scanner.
C17_VariantFixedOnce ==
  [][ /\ cell.state = "complete" =>
           /\ cell' = cell
           /\ constructions' = constructions
      /\ (cell.state # "complete" /\ cell'.state = "complete") =>
           /\ cell'.ml_requested = config.security_prompt_ml_enabled
           /\ cell'.value.ml_detector => config.security_prompt_ml_enabled
           /\ cell'.value.ml_detector = (cell'.ml_requested /\ ~cell'.ml_init_failed)
      /\ \A c \in Callers :
           /\ (caller[c].pc = "idle" /\ caller'[c].pc # "idle") =>
                caller'[c].enabled = config.security_prompt_enabled
           /\ (caller[c].pc = "loop" /\ Len(caller'[c].trace) = Len(caller[c].trace) + 1
                 /\ caller'[c].trace[Len(caller'[c].trace)].parsed) =>
                LET d == caller'[c].trace[Len(caller'[c].trace)]
                IN  /\ d.config_threshold =
                         (IF config.security_prompt_threshold.some
                            THEN config.security_prompt_threshold.v ELSE 70)
                    /\ d.classifier # "NoCall" <=> cell.value.ml_detector
    ]_vars

\* The classifier flag is set, the stored scanner was built without it, and
\* a call has gone through two tool requests with that scanner under two
\* different thresholds.
C17_Witness ==
  /\ cell.state = "complete"
  /\ ~cell.ml_requested
  /\ config.security_prompt_ml_enabled
  /\ \E c \in Callers :
       /\ Scanning(c)
       /\ Len(caller[c].trace) = 2
       /\ caller[c].trace[1].classifier = "NoCall"
       /\ caller[c].trace[2].classifier = "NoCall"
       /\ caller[c].trace[1].parsed /\ caller[c].trace[2].parsed
       /\ caller[c].trace[1].config_threshold = 70
       /\ caller[c].trace[2].config_threshold = 20

====
